---- MODULE Spec2Model ----
(***************************************************************************)
(* Model of the monarch-money-api client: the module-level Credential      *)
(* Store (session.js), the module-level Auth Flow (loginUser,              *)
(* multiFactorAuthenticate), the module-level transport and request        *)
(* builders (api.js), and the MonarchMoney class with its own store,       *)
(* transport and session file.                                             *)
(*                                                                         *)
(* JavaScript values are modelled as strings: NULL and UNDEFINED are the   *)
(* two empty values, every other string is itself.  Str(v) is JavaScript's *)
(* string conversion, which the template `Token ${v}` applies.             *)
(***************************************************************************)
EXTENDS Naturals, Integers, Sequences, FiniteSets, TLC

VARIABLES
  uses,       \* the implementation the program imports: "module" or "class"
  envToken,   \* process.env[MONARCH_TOKEN] when session.js is loaded
  token,      \* session.js: let token
  headers,    \* session.js: let headers (a mapping header name -> value)
  c_token,    \* MonarchMoney: this._token
  c_headers,  \* MonarchMoney: this._headers
  c_file,     \* the text of the session file (.mm/mm_session.json)
  auth,       \* the login or MFA call that awaits the login endpoint's answer
  last,       \* the call that completed last: its arguments, requests, outcome
  poll,       \* requestAccountsRefreshAndWait: its locals and the clock
  batch,      \* deleteTransactionCategories: the promises of one batch
  run,        \* the synchronous code on the call stack: setToken between its statements
  desc,       \* the last call of a request builder: its arguments and what it handed to gqlCall
  flow        \* login or interactiveLogin in progress: its prompts, requests, outcome

vars == <<uses, envToken, token, headers, c_token, c_headers, c_file, auth, last, poll, batch,
          run, desc, flow>>

---------------------------------------------------------------------------
(* JavaScript values *)

NULL == "<null>"
UNDEFINED == "<undefined>"
EMPTY == ""

Str(v) == IF v = NULL THEN "null" ELSE IF v = UNDEFINED THEN "undefined" ELSE v

Truthy(v) == v \notin {NULL, UNDEFINED, EMPTY}

\* The tokens the login endpoint may issue, and the one the environment may hold.
Tokens == {"tokA", "tokB"}
EnvTokens == {"tokE"}

AUTH_HEADER_KEY == "Authorization"

TokenHeader(v) == "Token " \o Str(v)

BaseHeaders == "Client-Platform" :> "web"

SetHeader(h, k, v) == [x \in (DOMAIN h) \cup {k} |-> IF x = k THEN v ELSE h[x]]

HasHeader(h, k) == k \in DOMAIN h /\ Truthy(h[k])

headersAtLoad_ignoresEnv(env) == BaseHeaders

\* session.js at load: the environment's token goes into the headers only.
headersAtLoad(env) ==
  IF Truthy(env) THEN SetHeader(BaseHeaders, AUTH_HEADER_KEY, TokenHeader(env))
  ELSE BaseHeaders

getHeaders == headers
getToken == token

\* setToken(newToken): the token and the Authorization header it yields.
setToken_token(newToken) == newToken

setToken_headers_stale(newToken) == headers
setToken_headers(newToken) == SetHeader(headers, AUTH_HEADER_KEY, TokenHeader(newToken))

---------------------------------------------------------------------------
(* Requests, responses and the record of a completed call *)

NoAuth == "<absent>"

AuthOf(h) == IF AUTH_HEADER_KEY \in DOMAIN h THEN h[AUTH_HEADER_KEY] ELSE NoAuth

\* A request put on the network: its kind ("login", "mfa", "query", "upload"),
\* the operation, the Authorization header it carries, and what the store of the
\* implementation that sent it held at that moment.
Req(kind, opName, hdrs, held) ==
  [kind |-> kind, opName |-> opName, auth |-> AuthOf(hdrs), held |-> held]

NoMsg == "<none>"

\* What the remote answered to the (last) request of a call, if anything.
NoResp == [kind |-> "none"]

\* A completed call: who ran what with which arguments, the requests it put on
\* the network, how many times it invoked its transport (gqlCall, fetch or
\* axios.post), the answer it got, how it ended (outcome "ok" or the class of the
\* error thrown, with the error's message), what it returned, and the token and
\* headers of its store when it was called.
Call(impl, op, args, reqs, calls, resp, outcome, msg, ret, pre) ==
  [impl |-> impl, op |-> op, args |-> args, reqs |-> reqs, calls |-> calls, resp |-> resp,
   outcome |-> outcome, msg |-> msg, ret |-> ret, pre |-> pre]

NoCall == Call("none", "none", <<>>, <<>>, 0, NoResp, "none", NoMsg, UNDEFINED, <<NULL, BaseHeaders>>)

NoAuthCall == [fn |-> "none"]

NoDesc == [op |-> "none"]

\* The exception classes: all three extend Error and nothing else.
InstanceOf(outcome, cls) == outcome = cls \/ (cls = "Error" /\ outcome \notin {"ok", "none"})

---------------------------------------------------------------------------
(* The login endpoint *)

NumStr(n) ==
  CASE n = 200 -> "200" [] n = 204 -> "204" [] n = 401 -> "401"
    [] n = 403 -> "403" [] OTHER -> "0"

StatusText(n) ==
  CASE n = 200 -> "OK" [] n = 204 -> "No Content" [] n = 401 -> "Unauthorized"
    [] n = 403 -> "Forbidden" [] OTHER -> ""

LoginStatuses == {200, 401, 403}

ERRORS_KEY == "error_code"

\* The bodies the login endpoint may send: JSON with a token, JSON without one,
\* JSON with an error code, and text that is not JSON.
LoginBodies ==
  {[json |-> TRUE, token |-> t, error_code |-> UNDEFINED] : t \in Tokens \cup {UNDEFINED}}
    \cup {[json |-> TRUE, token |-> UNDEFINED, error_code |-> "invalid_mfa"],
          [json |-> FALSE, token |-> UNDEFINED, error_code |-> UNDEFINED]}

\* An HTTP answer, or no answer at all (fetch rejects).
LoginResponses ==
  {[kind |-> "http", status |-> s, body |-> b] : s \in LoginStatuses, b \in LoginBodies}
    \cup {[kind |-> "failure", status |-> 0, body |-> CHOOSE b \in LoginBodies : ~b.json]}

MfaSecrets == {UNDEFINED, "secret"}
MfaCodes == {"123456"}

Finish(call) ==
  /\ last' = call
  /\ UNCHANGED <<desc, run, flow, uses, envToken, c_token, c_headers, c_file, poll, batch>>

\* loginUser, up to its await of fetch.  generateOtp is neither defined nor
\* imported in the file, so a truthy mfaSecretKey ends the call before fetch.
loginUser_call(mfaSecretKey) ==
  /\ auth.fn = "none"
  /\ IF Truthy(mfaSecretKey)
     THEN /\ Finish(Call("module", "loginUser", <<mfaSecretKey>>, <<>>, 0, NoResp,
                         "ReferenceError", "generateOtp is not defined", UNDEFINED,
                         <<token, headers>>))
          /\ UNCHANGED <<token, headers, auth>>
     ELSE /\ auth' = [fn |-> "loginUser", args |-> <<mfaSecretKey>>,
                      req |-> Req("login", "login", getHeaders, getToken),
                      pre |-> <<token, headers>>]
          /\ UNCHANGED <<desc, run, flow, uses, envToken, token, headers, c_token, c_headers, c_file, last, poll, batch>>

\* How loginUser ends on the answer r: the error it throws, or "ok" and setToken.
loginUser_outcome_no403(r) ==
  IF r.kind = "failure" THEN <<"FetchError", "request failed">>
  ELSE IF r.status # 200
    THEN <<"LoginFailedException", "HTTP Code " \o NumStr(r.status) \o ": " \o StatusText(r.status)>>
  ELSE IF ~r.body.json THEN <<"FetchError", "invalid json response body">>
  ELSE <<"ok", NoMsg>>

loginUser_outcome(r) ==
  IF r.kind = "failure" THEN <<"FetchError", "request failed">>
  ELSE IF r.status = 403 THEN <<"RequireMFAException", "Multi-Factor Auth Required">>
  ELSE IF r.status # 200
    THEN <<"LoginFailedException", "HTTP Code " \o NumStr(r.status) \o ": " \o StatusText(r.status)>>
  ELSE IF ~r.body.json THEN <<"FetchError", "invalid json response body">>
  ELSE <<"ok", NoMsg>>

\* multiFactorAuthenticate reads the body before it throws.
multiFactorAuthenticate_outcome(r) ==
  IF r.kind = "failure" THEN <<"FetchError", "request failed">>
  ELSE IF ~r.body.json THEN <<"FetchError", "invalid json response body">>
  ELSE IF r.status # 200
    THEN <<"LoginFailedException",
           IF Truthy(r.body[ERRORS_KEY]) THEN r.body[ERRORS_KEY] ELSE "Unknown error">>
  ELSE <<"ok", NoMsg>>

StoreAfterLogin_clears(o, r) ==
  IF o = "ok" THEN <<setToken_token(r.body.token), setToken_headers(r.body.token)>>
  ELSE <<NULL, BaseHeaders>>

\* The store after a login call that ended with outcome o on the answer r.
StoreAfterLogin(o, r) ==
  IF o = "ok" THEN <<setToken_token(r.body.token), setToken_headers(r.body.token)>>
  ELSE <<token, headers>>

loginUser_return(r) ==
  /\ auth.fn = "loginUser"
  /\ LET o == loginUser_outcome(r)
         st == StoreAfterLogin(o[1], r)
     IN /\ token' = st[1]
        /\ headers' = st[2]
        /\ Finish(Call("module", "loginUser", auth.args, <<auth.req>>, 1, r,
                       o[1], o[2], UNDEFINED, auth.pre))
  /\ auth' = NoAuthCall

multiFactorAuthenticate_call(code) ==
  /\ auth.fn = "none"
  /\ auth' = [fn |-> "multiFactorAuthenticate", args |-> <<code>>,
              req |-> Req("mfa", "login", getHeaders, getToken),
              pre |-> <<token, headers>>]
  /\ UNCHANGED <<desc, run, flow, uses, envToken, token, headers, c_token, c_headers, c_file, last, poll, batch>>

multiFactorAuthenticate_return(r) ==
  /\ auth.fn = "multiFactorAuthenticate"
  /\ LET o == multiFactorAuthenticate_outcome(r)
         st == StoreAfterLogin(o[1], r)
     IN /\ token' = st[1]
        /\ headers' = st[2]
        /\ Finish(Call("module", "multiFactorAuthenticate", auth.args, <<auth.req>>, 1, r,
                       o[1], o[2], UNDEFINED, auth.pre))
  /\ auth' = NoAuthCall

---------------------------------------------------------------------------
(* The transport *)

MaxErrors == 1

ErrorCodes == {"E1", "E2"}

\* The errors lists a mutation payload may carry: lists of error objects, each
\* represented by its code.
ErrorLists == UNION {[1..n -> ErrorCodes] : n \in 0..MaxErrors}

\* The answers to a query call: a data payload (for a mutation with its
\* deleted/success flag and its errors list), or a failed request.
DataResponse(flag, errors) == [kind |-> "data", flag |-> flag, errors |-> errors]
FailedResponse == [kind |-> "failure", flag |-> FALSE, errors |-> <<>>]

PlainResponses == {DataResponse(TRUE, <<>>), FailedResponse}
FlagResponses ==
  {DataResponse(f, e) : f \in BOOLEAN, e \in ErrorLists} \cup {FailedResponse}

NOT_LOGGED_IN == "Make sure you call login() first or provide a session token!"

Sent_retried(req, r) ==
  IF r.kind = "failure"
  THEN [reqs |-> <<req, req>>, outcome |-> "ClientError", msg |-> "request failed"]
  ELSE [reqs |-> <<req>>, outcome |-> "ok", msg |-> NoMsg]

\* What a transport call yields: the requests sent, the outcome, the message.
Sent(req, r) ==
  IF r.kind = "failure" THEN [reqs |-> <<req>>, outcome |-> "ClientError", msg |-> "request failed"]
  ELSE [reqs |-> <<req>>, outcome |-> "ok", msg |-> NoMsg]

NotSent(outcome, msg) == [reqs |-> <<>>, outcome |-> outcome, msg |-> msg]

\* api.js: getGraphQLClient and gqlCall.
m_gqlCall(operation, r) ==
  IF ~HasHeader(getHeaders, AUTH_HEADER_KEY)
  THEN NotSent("LoginFailedException", NOT_LOGGED_IN)
  ELSE Sent(Req("query", operation, getHeaders, getToken), r)

\* MonarchMoney.gqlCall: its guard is !this._headers, and this._headers is the
\* object the constructor made, which is never falsy.
c_headersFalsy == FALSE

c_gqlCall(operation, r) ==
  IF c_headersFalsy
  THEN NotSent("LoginFailedException", NOT_LOGGED_IN)
  ELSE Sent(Req("query", operation, c_headers, c_token), r)

Impls == {"module", "class"}

gqlCall(impl, operation, r) ==
  IF impl = "module" THEN m_gqlCall(operation, r) ELSE c_gqlCall(operation, r)

StoreOf(impl) == IF impl = "module" THEN <<token, headers>> ELSE <<c_token, c_headers>>

Return_clearsStore(call) ==
  /\ last' = call
  /\ token' = NULL
  /\ headers' = BaseHeaders
  /\ UNCHANGED <<desc, run, flow, uses, envToken, c_token, c_headers, c_file, auth, poll, batch>>

\* A request builder ends: the store is left alone.
Return(call) ==
  /\ last' = call
  /\ UNCHANGED <<desc, run, flow, uses, envToken, token, headers, c_token, c_headers, c_file, auth, poll, batch>>

Thrown(impl, op, args, outcome, msg) ==
  Call(impl, op, args, <<>>, 0, NoResp, outcome, msg, UNDEFINED, StoreOf(impl))

\* `return await gqlCall(...)`: the payload, or the transport's error.
Forward(impl, op, args, t, r) ==
  Call(impl, op, args, t.reqs, 1, IF t.reqs = <<>> THEN NoResp ELSE r, t.outcome, t.msg,
       IF t.outcome = "ok" THEN "payload" ELSE UNDEFINED, StoreOf(impl))

---------------------------------------------------------------------------
(* Request builders that take a startDate/endDate pair *)

Dates == {"2024-01-01"}
DateArgs == {NULL, EMPTY} \cup Dates

BOTH_DATES == "You must specify both a startDate and endDate, not just one of them."

DatePairOps ==
  {"getBudgets", "getTransactions", "getCashflow", "getCashflowSummary",
   "getRecurringTransactions", "getAggregateSnapshots"}

OperationName(op) ==
  CASE op = "getBudgets" -> "GetJointPlanningData"
    [] op = "getTransactions" -> "GetTransactionsList"
    [] op = "getCashflow" -> "Web_GetCashFlowPage"
    [] op = "getCashflowSummary" -> "Web_GetCashFlowPage"
    [] op = "getRecurringTransactions" -> "Web_GetUpcomingRecurringTransactionItems"
    [] op = "getAggregateSnapshots" -> "GetAggregateSnapshots"
    [] op = "setBudgetAmount" -> "Common_UpdateBudgetItem"
    [] op = "deleteTransaction" -> "Common_DeleteTransactionMutation"
    [] op = "deleteTransactionCategory" -> "Web_DeleteCategory"
    [] op = "deleteAccount" -> "Common_DeleteAccount"
    [] op = "requestAccountsRefresh" -> "Common_ForceRefreshAccountsMutation"
    [] OTHER -> op

\* Whether the operation throws on the pair: each as its code tests it.
getBudgets_rejects(startDate, endDate) ==
  ~(~Truthy(startDate) /\ ~Truthy(endDate)) /\ (~Truthy(startDate) \/ ~Truthy(endDate))

getTransactions_rejects_startOnly(startDate, endDate) ==
  Truthy(startDate) /\ ~Truthy(endDate)

getTransactions_rejects(startDate, endDate) ==
  ~(Truthy(startDate) /\ Truthy(endDate)) /\ (Truthy(startDate) \/ Truthy(endDate))

getCashflow_rejects(startDate, endDate) ==
  ~(Truthy(startDate) /\ Truthy(endDate)) /\ (Truthy(startDate) \/ Truthy(endDate))

getCashflowSummary_rejects(startDate, endDate) ==
  ~(Truthy(startDate) /\ Truthy(endDate)) /\ (Truthy(startDate) \/ Truthy(endDate))

getRecurringTransactions_rejects(startDate, endDate) ==
  (startDate = NULL) # (endDate = NULL)

getAggregateSnapshots_rejects(startDate, endDate) == FALSE

DatePair_rejects(op, startDate, endDate) ==
  CASE op = "getBudgets" -> getBudgets_rejects(startDate, endDate)
    [] op = "getTransactions" -> getTransactions_rejects(startDate, endDate)
    [] op = "getCashflow" -> getCashflow_rejects(startDate, endDate)
    [] op = "getCashflowSummary" -> getCashflowSummary_rejects(startDate, endDate)
    [] op = "getRecurringTransactions" -> getRecurringTransactions_rejects(startDate, endDate)
    [] op = "getAggregateSnapshots" -> getAggregateSnapshots_rejects(startDate, endDate)

\* One of the six operations, in either implementation (the class methods test
\* the pair as the module-level functions do).
DatePairCall(impl, op, startDate, endDate, r) ==
  Return(IF DatePair_rejects(op, startDate, endDate)
         THEN Thrown(impl, op, <<startDate, endDate>>, "Error", BOTH_DATES)
         ELSE Forward(impl, op, <<startDate, endDate>>, gqlCall(impl, OperationName(op), r), r))

---------------------------------------------------------------------------
(* setBudgetAmount *)

CategoryIds == {NULL, "cat1"}
CategoryGroupIds == {NULL, "grp1"}

EITHER_ID == "You must specify either a categoryId OR categoryGroupId; not both"

setBudgetAmount_rejects_both_only(categoryId, categoryGroupId) ==
  categoryId # NULL /\ categoryGroupId # NULL

setBudgetAmount_rejects(categoryId, categoryGroupId) ==
  (categoryId = NULL) = (categoryGroupId = NULL)

setBudgetAmount(impl, categoryId, categoryGroupId, r) ==
  Return(IF setBudgetAmount_rejects(categoryId, categoryGroupId)
         THEN Thrown(impl, "setBudgetAmount", <<categoryId, categoryGroupId>>, "Error", EITHER_ID)
         ELSE Forward(impl, "setBudgetAmount", <<categoryId, categoryGroupId>>,
                      gqlCall(impl, OperationName("setBudgetAmount"), r), r))

---------------------------------------------------------------------------
(* Mutations whose payload carries a deleted or success flag *)

FlagOps == {"deleteTransaction", "deleteTransactionCategory", "deleteAccount",
            "requestAccountsRefresh"}

RECURSIVE JoinObjects(_)
JoinObjects(n) ==
  IF n = 0 THEN "" ELSE IF n = 1 THEN "[object Object]"
  ELSE JoinObjects(n - 1) \o ",[object Object]"

\* new RequestFailedException(errors): Error's constructor keeps String(errors)
\* as the message, and an array of objects converts to that many "[object Object]".
ErrMessage(errors) == JoinObjects(Len(errors))

Checked(r) ==
  IF ~r.flag THEN <<"RequestFailedException", ErrMessage(r.errors), UNDEFINED>>
  ELSE <<"ok", NoMsg, "true">>

Unchecked(r) == <<"ok", NoMsg, "payload">>

\* How each mutation ends on a data payload r: <<outcome, message, return value>>.
deleteTransaction_result(r) == Checked(r)
deleteTransactionCategory_result(r) == Checked(r)
requestAccountsRefresh_result_unchecked(r) == Unchecked(r)
requestAccountsRefresh_result(r) == Checked(r)
deleteAccount_result(r) == Unchecked(r)

FlagOp_result(op, r) ==
  CASE op = "deleteTransaction" -> deleteTransaction_result(r)
    [] op = "deleteTransactionCategory" -> deleteTransactionCategory_result(r)
    [] op = "requestAccountsRefresh" -> requestAccountsRefresh_result(r)
    [] op = "deleteAccount" -> deleteAccount_result(r)

FlagCall(impl, op, r) ==
  LET t == gqlCall(impl, OperationName(op), r)
      e == FlagOp_result(op, r)
  IN Return(IF t.outcome # "ok" THEN Forward(impl, op, <<"id1">>, t, r)
            ELSE Call(impl, op, <<"id1">>, t.reqs, 1, r, e[1], e[2], e[3], StoreOf(impl)))

---------------------------------------------------------------------------
(* uploadAccountBalanceHistory *)

AccountIdArgs == {NULL, "acc1"}
CsvArgs == {EMPTY, "date,balance"}
UploadStatuses == {200, 204}
UploadResponses ==
  {[kind |-> "http", status |-> n] : n \in UploadStatuses} \cup {[kind |-> "failure", status |-> 0]}

UPLOAD_EMPTY == "accountId and csvContent cannot be empty"

\* api.js never imports axios: the call ends at the name.
m_uploadAccountBalanceHistory(accountId, csvContent, r) ==
  IF ~Truthy(accountId) \/ ~Truthy(csvContent)
  THEN Thrown("module", "uploadAccountBalanceHistory", <<accountId, csvContent>>,
              "RequestFailedException", UPLOAD_EMPTY)
  ELSE Thrown("module", "uploadAccountBalanceHistory", <<accountId, csvContent>>,
              "ReferenceError", "axios is not defined")

c_uploadAccountBalanceHistory(accountId, csvContent, r) ==
  IF ~Truthy(accountId) \/ ~Truthy(csvContent)
  THEN Thrown("class", "uploadAccountBalanceHistory", <<accountId, csvContent>>,
              "RequestFailedException", UPLOAD_EMPTY)
  ELSE LET req == Req("upload", "upload", c_headers, c_token)
           o == IF r.kind = "failure" THEN <<"AxiosError", "request failed">>
                ELSE IF r.status # 200
                  THEN <<"RequestFailedException",
                         "HTTP Code " \o NumStr(r.status) \o ": " \o StatusText(r.status)>>
                ELSE <<"ok", NoMsg>>
       IN Call("class", "uploadAccountBalanceHistory", <<accountId, csvContent>>, <<req>>,
               1, r, o[1], o[2], UNDEFINED, StoreOf("class"))

uploadAccountBalanceHistory(impl, accountId, csvContent, r) ==
  Return(IF impl = "module" THEN m_uploadAccountBalanceHistory(accountId, csvContent, r)
         ELSE c_uploadAccountBalanceHistory(accountId, csvContent, r))

---------------------------------------------------------------------------
(* requestAccountsRefreshAndDontWait *)

\* The accounts the remote knows, and the accountIds a caller may pass; NullIds
\* stands for the default accountIds = null.
RemoteAccountIds == <<"acc1", "acc2">>
NullIds == <<NULL>>
AccountIdLists == {NullIds, <<"acc1">>, <<"acc1", "acc2">>}

\* The account list when no ids are given, then the refresh trigger, each
\* through gqlCall; the first error ends the call.
requestAccountsRefreshAndDontWait(accountIds, ra, rt) ==
  LET op == "requestAccountsRefreshAndDontWait"
      ta == m_gqlCall("GetAccounts", ra)
      tt == m_gqlCall(OperationName("requestAccountsRefresh"), rt)
      e == requestAccountsRefresh_result(rt)
      listed == IF accountIds = NullIds THEN ta.reqs ELSE <<>>
      n == IF accountIds = NullIds THEN 2 ELSE 1
  IN Return(IF accountIds = NullIds /\ ta.outcome # "ok"
            THEN Forward("module", op, <<accountIds>>, ta, ra)
            ELSE IF tt.outcome # "ok"
            THEN Call("module", op, <<accountIds>>, listed \o tt.reqs, n,
                      IF tt.reqs = <<>> THEN NoResp ELSE rt, tt.outcome, tt.msg, UNDEFINED,
                      StoreOf("module"))
            ELSE Call("module", op, <<accountIds>>, listed \o tt.reqs, n, rt, e[1], e[2], e[3],
                      StoreOf("module")))

---------------------------------------------------------------------------
(* isAccountsRefreshComplete *)

Account(id, hasSyncInProgress) == [id |-> id, hasSyncInProgress |-> hasSyncInProgress]

\* response.accounts: each account the remote knows is listed or not, and a
\* listed account is syncing or not.
SyncStates == {"absent", "syncing", "synced"}
AccountsOf(s1, s2) ==
  (IF s1 = "absent" THEN <<>> ELSE <<Account("acc1", s1 = "syncing")>>)
    \o (IF s2 = "absent" THEN <<>> ELSE <<Account("acc2", s2 = "syncing")>>)
AccountLists == {AccountsOf(s1, s2) : s1 \in SyncStates, s2 \in SyncStates}

\* The payloads of ForceRefreshAccountsQuery: with an accounts list, or without.
AccountsResponses ==
  {[kind |-> "data", hasAccounts |-> TRUE, accounts |-> a] : a \in AccountLists}
    \cup {[kind |-> "data", hasAccounts |-> FALSE, accounts |-> <<>>],
          [kind |-> "failure", hasAccounts |-> FALSE, accounts |-> <<>>]}

\* accountIds.includes(id)
Includes(accountIds, id) == \E i \in DOMAIN accountIds : accountIds[i] = id

\* The value returned on the list accounts.
isAccountsRefreshComplete_result(accountIds, accounts) ==
  IF accountIds # NullIds
  THEN \A i \in DOMAIN accounts :
         ~accounts[i].hasSyncInProgress /\ Includes(accountIds, accounts[i].id)
  ELSE \A i \in DOMAIN accounts : ~accounts[i].hasSyncInProgress

isAccountsRefreshComplete(impl, accountIds, r) ==
  LET op == "isAccountsRefreshComplete"
      t == gqlCall(impl, "ForceRefreshAccountsQuery", r)
  IN Return(IF t.outcome # "ok" THEN Forward(impl, op, <<accountIds>>, t, r)
            ELSE IF ~r.hasAccounts
            THEN Call(impl, op, <<accountIds>>, t.reqs, 1, r, "RequestFailedException",
                      "Unable to request status of refresh", UNDEFINED, StoreOf(impl))
            ELSE Call(impl, op, <<accountIds>>, t.reqs, 1, r, "ok", NoMsg,
                      IF isAccountsRefreshComplete_result(accountIds, r.accounts)
                      THEN "true" ELSE "false",
                      StoreOf(impl)))

---------------------------------------------------------------------------
(* The MonarchMoney instance: its store and its session file *)

FileAbsent == "<no file>"

\* JSON.stringify({ token }): an undefined property is left out.
JSON_stringify(tok) ==
  IF tok = UNDEFINED THEN "{}"
  ELSE IF tok = NULL THEN "{\"token\":null}"
  ELSE "{\"token\":\"" \o tok \o "\"}"

TokenValues == Tokens \cup {NULL, UNDEFINED}

IsJson(text) == \E t \in TokenValues : JSON_stringify(t) = text

\* JSON.parse(text).token, for a text that is JSON.
JSON_parse_token(text) == CHOOSE t \in TokenValues : JSON_stringify(t) = text

CtorTokens == {NULL} \cup Tokens

c_Finish(call) ==
  /\ last' = call
  /\ UNCHANGED <<desc, run, flow, uses, envToken, token, headers, auth, poll, batch>>

\* constructor(sessionFile, timeout, token): a new client, in a new process or not.
c_constructor(tok) ==
  /\ c_headers' = IF Truthy(tok) THEN SetHeader(BaseHeaders, AUTH_HEADER_KEY, TokenHeader(tok))
                  ELSE BaseHeaders
  /\ c_token' = tok
  /\ c_file' = c_file
  /\ c_Finish(Call("class", "constructor", <<tok>>, <<>>, 0, NoResp, "ok", NoMsg, UNDEFINED,
                   <<c_token, c_headers>>))

\* set token(value)
c_set_token(value) ==
  /\ c_token' = value
  /\ UNCHANGED <<c_headers, c_file>>
  /\ c_Finish(Call("class", "set token", <<value>>, <<>>, 0, NoResp, "ok", NoMsg, UNDEFINED,
                   <<c_token, c_headers>>))

c_saveSession ==
  /\ c_file' = JSON_stringify(c_token)
  /\ UNCHANGED <<c_token, c_headers>>
  /\ c_Finish(Call("class", "saveSession", <<c_file>>, <<>>, 0, NoResp, "ok", NoMsg, UNDEFINED,
                   <<c_token, c_headers>>))

c_deleteSession ==
  /\ c_file' = FileAbsent
  /\ UNCHANGED <<c_token, c_headers>>
  /\ c_Finish(Call("class", "deleteSession", <<c_file>>, <<>>, 0, NoResp, "ok", NoMsg, UNDEFINED,
                   <<c_token, c_headers>>))

\* The class declares the accessor pair `token` and no method setToken, which
\* loadSession, _loginUser and _multiFactorAuthenticate call.
c_has_setToken == FALSE

\* loadSession: <<outcome, message, this._token, this._headers>> afterwards.
c_loadSession_result ==
  IF c_file = FileAbsent THEN <<"Error", "ENOENT: no such file or directory", c_token, c_headers>>
  ELSE IF ~IsJson(c_file) THEN <<"SyntaxError", "Unexpected token", c_token, c_headers>>
  ELSE IF ~c_has_setToken
    THEN <<"TypeError", "this.setToken is not a function", c_token, c_headers>>
  ELSE <<"ok", NoMsg, JSON_parse_token(c_file),
         SetHeader(c_headers, AUTH_HEADER_KEY, TokenHeader(JSON_parse_token(c_file)))>>

c_loadSession ==
  LET e == c_loadSession_result
  IN /\ c_token' = e[3]
     /\ c_headers' = e[4]
     /\ c_file' = c_file
     /\ c_Finish(Call("class", "loadSession", <<c_file>>, <<>>, 0, NoResp, e[1], e[2], UNDEFINED,
                      <<c_token, c_headers>>))

---------------------------------------------------------------------------
(* The program: module load, then any calls *)

PollIdle == [pc |-> "idle"]
BatchIdle == [pc |-> "idle"]
RunIdle == [pc |-> "idle"]
FlowIdle == [pc |-> "idle"]

Init ==
  /\ uses \in Impls
  /\ envToken \in {UNDEFINED} \cup EnvTokens
  /\ token = NULL
  /\ headers = headersAtLoad(envToken)
  /\ c_token = NULL
  /\ c_headers = BaseHeaders
  /\ c_file = FileAbsent
  /\ auth = NoAuthCall
  /\ last = NoCall
  /\ poll = PollIdle
  /\ batch = BatchIdle
  /\ run = RunIdle
  /\ desc = NoDesc
  /\ flow = FlowIdle

LoginUserCall == uses = "module" /\ \E k \in MfaSecrets : loginUser_call(k)
LoginUserReturn == uses = "module" /\ \E r \in LoginResponses : loginUser_return(r)
MultiFactorAuthenticateCall == uses = "module" /\ \E c \in MfaCodes : multiFactorAuthenticate_call(c)
MultiFactorAuthenticateReturn ==
  uses = "module" /\ \E r \in LoginResponses : multiFactorAuthenticate_return(r)
DatePair ==
  \E op \in DatePairOps, s \in DateArgs, e \in DateArgs, r \in PlainResponses :
    DatePairCall(uses, op, s, e, r)
SetBudgetAmount ==
  \E c \in CategoryIds, g \in CategoryGroupIds, r \in PlainResponses :
    setBudgetAmount(uses, c, g, r)
FlagMutation == \E op \in FlagOps, r \in FlagResponses : FlagCall(uses, op, r)
Upload ==
  \E a \in AccountIdArgs, c \in CsvArgs, r \in UploadResponses :
    uploadAccountBalanceHistory(uses, a, c, r)
Construct == uses = "class" /\ \E t \in CtorTokens : c_constructor(t)
SetTokenProperty == uses = "class" /\ \E t \in CtorTokens : c_set_token(t)
SaveSession == uses = "class" /\ c_saveSession
LoadSession == uses = "class" /\ c_loadSession
DeleteSession == uses = "class" /\ c_deleteSession
RefreshComplete ==
  \E ids \in AccountIdLists, r \in AccountsResponses : isAccountsRefreshComplete(uses, ids, r)
RefreshDontWait ==
  /\ uses = "module"
  /\ \E ids \in AccountIdLists, ra \in PlainResponses, rt \in FlagResponses :
       requestAccountsRefreshAndDontWait(ids, ra, rt)

Next ==
  \/ LoginUserCall
  \/ LoginUserReturn
  \/ MultiFactorAuthenticateCall
  \/ MultiFactorAuthenticateReturn
  \/ DatePair
  \/ SetBudgetAmount
  \/ FlagMutation
  \/ Upload
  \/ Construct
  \/ SetTokenProperty
  \/ SaveSession
  \/ LoadSession
  \/ DeleteSession
  \/ RefreshDontWait
  \/ RefreshComplete

Spec == Init /\ [][Next]_vars

---------------------------------------------------------------------------
(* requestAccountsRefreshAndWait, run against a stubbed status check *)

MaxTimeout == 3
MaxDelay == 2
MaxN == 3

MsPerSecond == 1000

\* while (!refreshed && Date.now() <= start + timeout * 1000)
loopContinues_strict(refreshed, now, start, timeout) ==
  ~refreshed /\ now < start + timeout * MsPerSecond

loopContinues(refreshed, now, start, timeout) ==
  ~refreshed /\ now <= start + timeout * MsPerSecond

\* The stub: 'in progress' on its first N calls, 'complete' on every later call.
stubComplete(callsBefore, N) == callsBefore >= N

PollUnchanged == UNCHANGED <<desc, run, flow, uses, envToken, token, headers, c_token, c_headers, c_file, auth, batch>>

\* The call up to the loop: the account ids (getAccounts when none are given),
\* then the refresh trigger, then start = Date.now().
requestAccountsRefreshAndWait_call(accountIds, timeout, delay, N, ra, rt) ==
  /\ poll.pc = "idle"
  /\ LET ta == gqlCall(uses, "GetAccounts", ra)
         tt == gqlCall(uses, OperationName("requestAccountsRefresh"), rt)
         e == requestAccountsRefresh_result(rt)
         base == [pc |-> "loop",
                  accountIds |-> IF accountIds = NullIds THEN RemoteAccountIds ELSE accountIds, timeout |-> timeout,
                  delay |-> delay, N |-> N, now |-> 0, start |-> 0, refreshed |-> FALSE,
                  triggers |-> 0, checks |-> 0, waits |-> 0, outcome |-> "none",
                  msg |-> NoMsg, ret |-> FALSE]
     IN IF accountIds = NullIds /\ ta.outcome # "ok"
        THEN /\ poll' = [base EXCEPT !.pc = "done", !.outcome = ta.outcome, !.msg = ta.msg]
             /\ last' = Forward(uses, "getAccounts", <<>>, ta, ra)
        ELSE IF tt.outcome # "ok"
        THEN /\ poll' = [base EXCEPT !.pc = "done", !.outcome = tt.outcome, !.msg = tt.msg,
                                     !.triggers = Len(tt.reqs)]
             /\ last' = Forward(uses, "requestAccountsRefresh", <<accountIds>>, tt, rt)
        ELSE /\ poll' = IF e[1] # "ok"
                        THEN [base EXCEPT !.pc = "done", !.outcome = e[1], !.msg = e[2],
                                          !.triggers = 1]
                        ELSE [base EXCEPT !.triggers = 1]
             /\ last' = Call(uses, "requestAccountsRefresh", <<accountIds>>, tt.reqs, 1, rt,
                             e[1], e[2], e[3], StoreOf(uses))
  /\ PollUnchanged

loopExit_throws(refreshed) ==
  IF refreshed THEN [outcome |-> "ok", ret |-> TRUE]
  ELSE [outcome |-> "TimeoutError", ret |-> FALSE]

\* return refreshed: the loop's end is a normal return, at the deadline too.
loopExit(refreshed) == [outcome |-> "ok", ret |-> refreshed]

\* The loop test: go round once more, or return refreshed.
requestAccountsRefreshAndWait_test ==
  /\ poll.pc = "loop"
  /\ poll' = IF loopContinues(poll.refreshed, poll.now, poll.start, poll.timeout)
             THEN [poll EXCEPT !.pc = "sleep"]
             ELSE [poll EXCEPT !.pc = "done", !.outcome = loopExit(poll.refreshed).outcome,
                               !.ret = loopExit(poll.refreshed).ret]
  /\ UNCHANGED last
  /\ PollUnchanged

\* await new Promise((resolve) => setTimeout(resolve, delay * 1000))
requestAccountsRefreshAndWait_sleep ==
  /\ poll.pc = "sleep"
  /\ poll' = [poll EXCEPT !.pc = "check", !.now = poll.now + poll.delay * MsPerSecond,
                          !.waits = poll.waits + 1]
  /\ UNCHANGED last
  /\ PollUnchanged

\* refreshed = await isAccountsRefreshComplete(accountIds), answered by the stub.
requestAccountsRefreshAndWait_check ==
  /\ poll.pc = "check"
  /\ poll' = [poll EXCEPT !.pc = "loop", !.refreshed = stubComplete(poll.checks, poll.N),
                          !.checks = poll.checks + 1]
  /\ UNCHANGED last
  /\ PollUnchanged

\* refreshed = await isAccountsRefreshComplete(accountIds), answered as the remote
\* pleases: complete or still in progress.
requestAccountsRefreshAndWait_answer(complete) ==
  /\ poll.pc = "check"
  /\ poll' = [poll EXCEPT !.pc = "loop", !.refreshed = complete, !.checks = poll.checks + 1]
  /\ UNCHANGED last
  /\ PollUnchanged

PollInit ==
  /\ uses \in Impls
  /\ envToken \in {UNDEFINED} \cup EnvTokens
  /\ token = NULL
  /\ headers = headersAtLoad(envToken)
  /\ c_token = NULL
  /\ c_headers = BaseHeaders
  /\ c_file = FileAbsent
  /\ auth = NoAuthCall
  /\ last = NoCall
  /\ poll = PollIdle
  /\ batch = BatchIdle
  /\ run = RunIdle
  /\ desc = NoDesc
  /\ flow = FlowIdle

PollCall ==
  \E ids \in AccountIdLists, timeout \in 0..MaxTimeout, delay \in 0..MaxDelay,
     N \in 0..MaxN, ra \in PlainResponses, rt \in FlagResponses :
    requestAccountsRefreshAndWait_call(ids, timeout, delay, N, ra, rt)
PollTest == requestAccountsRefreshAndWait_test
PollSleep == requestAccountsRefreshAndWait_sleep
PollCheck == requestAccountsRefreshAndWait_check

PollNext == PollCall \/ PollTest \/ PollSleep \/ PollCheck

SpecPoll == PollInit /\ [][PollNext]_vars

\* The same call with a positive delay and status answers of any kind; each
\* network call returns and each timer fires.
LiveCall ==
  \E ids \in AccountIdLists, timeout \in 0..MaxTimeout, delay \in 1..MaxDelay,
     ra \in PlainResponses, rt \in FlagResponses :
    requestAccountsRefreshAndWait_call(ids, timeout, delay, 0, ra, rt)
LiveAnswer == \E complete \in BOOLEAN : requestAccountsRefreshAndWait_answer(complete)

LiveNext == LiveCall \/ PollTest \/ PollSleep \/ LiveAnswer

SpecPollLive ==
  /\ PollInit
  /\ [][LiveNext]_vars
  /\ WF_vars(PollTest)
  /\ WF_vars(PollSleep)
  /\ WF_vars(LiveAnswer)

---------------------------------------------------------------------------
(* deleteTransactionCategories *)

MaxIds == 2

CategoryIdArgs == {"cat1", "cat2"}
CategoryIdLists == UNION {[1..n -> CategoryIdArgs] : n \in 0..MaxIds}

\* What `this` is in the module-level function: undefined when the function is
\* called by its imported name, the module namespace when called as a member of
\* it.  In the class it is the instance.
ThisValues(impl) == IF impl = "module" THEN {"undefined", "namespace"} ELSE {"instance"}

DeletionResponses == {DataResponse(TRUE, <<>>), DataResponse(FALSE, <<"E1">>), FailedResponse}

BatchUnchanged ==
  UNCHANGED <<desc, run, flow, uses, envToken, token, headers, c_token, c_headers, c_file, auth, last, poll>>

\* deleteTransactionCategory(id) up to its await: the transport's guard, then
\* the request.  "pending" is a promise awaiting the answer.
deletionStarted == gqlCall(uses, OperationName("deleteTransactionCategory"), DataResponse(TRUE, <<>>))

\* categoryIds.map((id) => this.deleteTransactionCategory(id).catch((e) => e))
deleteTransactionCategories_call(this, categoryIds) ==
  /\ batch.pc = "idle"
  /\ batch' =
       IF this = "undefined" /\ categoryIds # <<>>
       THEN [pc |-> "done", this |-> this, categoryIds |-> categoryIds,
             sent |-> [i \in DOMAIN categoryIds |-> FALSE],
             answers |-> [i \in DOMAIN categoryIds |-> NoResp],
             entries |-> [i \in DOMAIN categoryIds |-> "pending"], order |-> <<>>,
             outcome |-> "TypeError", ret |-> <<>>]
       ELSE [pc |-> "waiting", this |-> this, categoryIds |-> categoryIds,
             sent |-> [i \in DOMAIN categoryIds |-> deletionStarted.reqs # <<>>],
             answers |-> [i \in DOMAIN categoryIds |-> NoResp],
             entries |-> [i \in DOMAIN categoryIds |->
                            IF deletionStarted.reqs # <<>> THEN "pending"
                            ELSE deletionStarted.outcome],
             order |-> <<>>, outcome |-> "none", ret |-> <<>>]
  /\ BatchUnchanged

\* The answer to the i-th deletion arrives: true, or the error its catch keeps.
deleteTransactionCategories_settle(i, r) ==
  /\ batch.pc = "waiting"
  /\ i \in DOMAIN batch.entries
  /\ batch.entries[i] = "pending"
  /\ LET t == Sent(Req("query", "Web_DeleteCategory", StoreOf(uses)[2], StoreOf(uses)[1]), r)
         e == deleteTransactionCategory_result(r)
     IN batch' = [batch EXCEPT !.entries[i] = IF t.outcome # "ok" THEN t.outcome
                                              ELSE IF e[1] = "ok" THEN e[3] ELSE e[1],
                               !.answers[i] = r,
                               !.order = Append(batch.order, i)]
  /\ BatchUnchanged

\* Promise.all resolves once no promise is pending, in input order.
deleteTransactionCategories_resolve ==
  /\ batch.pc = "waiting"
  /\ \A i \in DOMAIN batch.entries : batch.entries[i] # "pending"
  /\ batch' = [batch EXCEPT !.pc = "done", !.outcome = "ok", !.ret = batch.entries]
  /\ BatchUnchanged

BatchInit == PollInit

BatchCall ==
  \E this \in ThisValues(uses), ids \in CategoryIdLists :
    deleteTransactionCategories_call(this, ids)
BatchSettle ==
  \E i \in 1..MaxIds, r \in DeletionResponses : deleteTransactionCategories_settle(i, r)
BatchResolve == deleteTransactionCategories_resolve

BatchNext == BatchCall \/ BatchSettle \/ BatchResolve

SpecBatch == BatchInit /\ [][BatchNext]_vars

---------------------------------------------------------------------------
(* setToken, statement by statement, among the other users of the store *)

\* The values setToken is called with: loginUser and multiFactorAuthenticate pass
\* json.token, and any importer of session.js may pass a token of its own.
SetTokenArgs == Tokens \cup {UNDEFINED}

\* Whether setToken gives up the thread between its two assignments.  It is a
\* synchronous arrow function: no await and no callback stands between them.
setToken_suspends_between == TRUE

setToken_suspends == FALSE

\* The event loop starts another operation only when no synchronous code is on
\* the call stack.
Runnable == run.pc = "idle" \/ setToken_suspends

StoreUnchanged == UNCHANGED <<desc, uses, envToken, c_token, c_headers, c_file, poll, batch, flow>>

\* token = newToken
setToken_assignToken(newToken) ==
  /\ run.pc = "idle"
  /\ token' = setToken_token(newToken)
  /\ run' = [pc |-> "header", newToken |-> newToken, pre |-> <<token, headers>>]
  /\ UNCHANGED <<headers, auth, last>>
  /\ StoreUnchanged

\* headers["Authorization"] = `Token ${newToken}`, and the function returns.
setToken_assignHeader ==
  /\ run.pc = "header"
  /\ headers' = setToken_headers(run.newToken)
  /\ run' = RunIdle
  /\ last' = Call("module", "setToken", <<run.newToken>>, <<>>, 0, NoResp, "ok", NoMsg,
                  UNDEFINED, run.pre)
  /\ UNCHANGED <<token, auth>>
  /\ StoreUnchanged

\* getToken() and getHeaders(), called by any other code: what it sees.
getHeaders_call ==
  /\ Runnable
  /\ last' = Call("module", "getHeaders", <<>>, <<>>, 0, NoResp, "ok", NoMsg, UNDEFINED,
                  <<getToken, getHeaders>>)
  /\ UNCHANGED <<token, headers, auth, run>>
  /\ StoreUnchanged

StoreInit ==
  /\ uses = "module"
  /\ envToken \in {UNDEFINED} \cup EnvTokens
  /\ token = NULL
  /\ headers = headersAtLoad(envToken)
  /\ c_token = NULL
  /\ c_headers = BaseHeaders
  /\ c_file = FileAbsent
  /\ auth = NoAuthCall
  /\ last = NoCall
  /\ poll = PollIdle
  /\ batch = BatchIdle
  /\ run = RunIdle
  /\ desc = NoDesc
  /\ flow = FlowIdle

StoreSetTokenBegin == \E t \in SetTokenArgs : setToken_assignToken(t)
StoreSetTokenEnd == setToken_assignHeader
StoreRead == getHeaders_call
StoreQuery ==
  /\ Runnable
  /\ \E op \in DatePairOps, s \in {NULL} \cup Dates, r \in PlainResponses :
       DatePairCall("module", op, s, s, r)
StoreLoginCall == Runnable /\ loginUser_call(UNDEFINED)
StoreLoginReturn == Runnable /\ \E r \in LoginResponses : loginUser_return(r)

StoreNext ==
  \/ StoreSetTokenBegin
  \/ StoreSetTokenEnd
  \/ StoreRead
  \/ StoreQuery
  \/ StoreLoginCall
  \/ StoreLoginReturn

SpecStore == StoreInit /\ [][StoreNext]_vars

---------------------------------------------------------------------------
(* login and interactiveLogin: prompts, saved session, login request, MFA *)

EMAIL_REQUIRED == "Email and password are required to login when not using a saved session."

\* The session file before the call: absent, written by saveSession (with a token
\* or with none), or holding text that is not JSON.
CORRUPT == "{\"token\":"
FileStates == {FileAbsent, CORRUPT} \cup {JSON_stringify(t) : t \in {"tokA", UNDEFINED}}

\* What the user types at a prompt (an empty line included), and the email and
\* password a caller of login passes.
EmailAnswers == {EMPTY, "user@example.com"}
PasswordAnswers == {EMPTY, "hunter2"}
EmailArgs == {NULL, "user@example.com"}
PasswordArgs == {NULL, "hunter2"}

\* rl.question(text, ...): closed tells whether rl.close() had been called on the
\* interface the question was put to.
Prompt(text, closed) == [text |-> text, closed |-> closed]

NewFlow(impl, fn, useSavedSession, saveSession, email, password) ==
  [pc |-> "start", impl |-> impl, fn |-> fn, useSavedSession |-> useSavedSession,
   saveSession |-> saveSession, email |-> email, password |-> password, code |-> UNDEFINED,
   prompts |-> <<>>, answered |-> 0, reqs |-> <<>>, first |-> "none", outcome |-> "none",
   msg |-> NoMsg, file0 |-> c_file, pre |-> StoreOf(impl)]

FlowUnchanged == UNCHANGED <<desc, uses, envToken, auth, last, poll, batch, run>>

StoreBecomes(impl, st) ==
  IF impl = "module"
  THEN token' = st[1] /\ headers' = st[2] /\ UNCHANGED <<c_token, c_headers>>
  ELSE c_token' = st[1] /\ c_headers' = st[2] /\ UNCHANGED <<token, headers>>

Ended(f, first, outcome, msg) ==
  [f EXCEPT !.pc = "done", !.first = first, !.outcome = outcome, !.msg = msg]

\* interactiveLogin, to its first await: the interface and the Email prompt.
interactiveLogin_call(impl, useSavedSession, saveSession) ==
  /\ flow.pc = "idle"
  /\ flow' = [NewFlow(impl, "interactiveLogin", useSavedSession, saveSession, UNDEFINED, UNDEFINED)
                EXCEPT !.pc = "email", !.prompts = <<Prompt("Email: ", FALSE)>>]
  /\ UNCHANGED <<token, headers, c_token, c_headers, c_file>>
  /\ FlowUnchanged

\* MonarchMoney.login: the saved session first, then the credentials, then the request.
c_login_branch_fallback(email, password, useSavedSession) ==
  IF useSavedSession /\ c_file # FileAbsent /\ IsJson(c_file) THEN "saved"
  ELSE IF ~Truthy(email) \/ ~Truthy(password) THEN "invalid"
  ELSE "request"

c_login_branch(email, password, useSavedSession) ==
  IF useSavedSession /\ c_file # FileAbsent THEN "saved"
  ELSE IF ~Truthy(email) \/ ~Truthy(password) THEN "invalid"
  ELSE "request"

\* MonarchMoney.login from its call to its return, its throw or its await of
\* axios.post, for the flow f that holds its arguments.
c_login(f) ==
  LET b == c_login_branch(f.email, f.password, f.useSavedSession)
      e == c_loadSession_result
  IN CASE b = "saved" ->
            /\ flow' = Ended(f, e[1], e[1], e[2])
            /\ StoreBecomes("class", <<e[3], e[4]>>)
            /\ UNCHANGED c_file
       [] b = "invalid" ->
            /\ flow' = Ended(f, "LoginFailedException", "LoginFailedException", EMAIL_REQUIRED)
            /\ UNCHANGED <<token, headers, c_token, c_headers, c_file>>
       [] b = "request" ->
            /\ flow' = [f EXCEPT !.pc = "login",
                                 !.reqs = Append(@, Req("login", "login", c_headers, c_token))]
            /\ UNCHANGED <<token, headers, c_token, c_headers, c_file>>

\* The module-level loginUser(email, passwd) of interactiveLogin, to its await of fetch.
m_login(f) ==
  /\ flow' = [f EXCEPT !.pc = "login",
                       !.reqs = Append(@, Req("login", "login", getHeaders, getToken))]
  /\ UNCHANGED <<token, headers, c_token, c_headers, c_file>>

c_login_call(email, password, useSavedSession, saveSession) ==
  /\ flow.pc = "idle"
  /\ c_login(NewFlow("class", "login", useSavedSession, saveSession, email, password))
  /\ FlowUnchanged

\* The Email prompt is answered: the Password prompt follows on the same interface.
interactiveLogin_email(a) ==
  /\ flow.pc = "email"
  /\ flow' = [flow EXCEPT !.pc = "password", !.email = a, !.answered = @ + 1,
                          !.prompts = Append(@, Prompt("Password: ", FALSE))]
  /\ UNCHANGED <<token, headers, c_token, c_headers, c_file>>
  /\ FlowUnchanged

\* The Password prompt is answered: rl.close(), then the first login attempt.
interactiveLogin_password(a) ==
  /\ flow.pc = "password"
  /\ LET f == [flow EXCEPT !.password = a, !.answered = @ + 1]
     IN IF flow.impl = "module" THEN m_login(f) ELSE c_login(f)
  /\ FlowUnchanged

\* _loginUser and _multiFactorAuthenticate on the answer of axios.post.
c_loginUser_outcome(r) ==
  IF r.kind = "failure" THEN <<"AxiosError", "request failed">>
  ELSE IF r.status = 403 THEN <<"RequireMFAException", "Multi-Factor Auth Required">>
  ELSE IF r.status # 200
    THEN <<"LoginFailedException", "HTTP Code " \o NumStr(r.status) \o ": " \o StatusText(r.status)>>
  ELSE IF ~c_has_setToken THEN <<"TypeError", "this.setToken is not a function">>
  ELSE <<"ok", NoMsg>>

c_multiFactorAuthenticate_outcome(r) ==
  IF r.kind = "failure" THEN <<"AxiosError", "request failed">>
  ELSE IF r.status # 200
    THEN <<"LoginFailedException",
           IF r.body.json /\ Truthy(r.body[ERRORS_KEY]) THEN r.body[ERRORS_KEY] ELSE "Unknown error">>
  ELSE IF ~c_has_setToken THEN <<"TypeError", "this.setToken is not a function">>
  ELSE <<"ok", NoMsg>>

\* The store of the implementation once a login step has taken the answer's token.
StoreWithToken(impl, r) ==
  IF impl = "module" THEN <<setToken_token(r.body.token), setToken_headers(r.body.token)>>
  ELSE <<r.body.token, SetHeader(c_headers, AUTH_HEADER_KEY, TokenHeader(r.body.token))>>

\* The session file once a login step has succeeded: MonarchMoney writes it when
\* saveSession is on; the module-level interactiveLogin has no statement that writes it.
FileAfterLogin(f, tok) ==
  IF f.impl = "class" /\ f.saveSession THEN JSON_stringify(tok) ELSE c_file

\* rl.question on an interface after rl.close(): Node either throws
\* ERR_USE_AFTER_CLOSE or writes the question and never calls back.
QuestionAfterClose == {"throws", "hangs"}

\* The login endpoint answers the first attempt.
login_answer(r) ==
  /\ flow.pc = "login"
  /\ LET o == IF flow.impl = "module" THEN loginUser_outcome(r) ELSE c_loginUser_outcome(r)
         st == StoreWithToken(flow.impl, r)
     IN IF o[1] = "ok"
        THEN /\ flow' = Ended(flow, "ok", "ok", NoMsg)
             /\ StoreBecomes(flow.impl, st)
             /\ c_file' = FileAfterLogin(flow, st[1])
        ELSE /\ UNCHANGED <<token, headers, c_token, c_headers, c_file>>
             /\ IF o[1] = "RequireMFAException" /\ flow.fn = "interactiveLogin"
                THEN IF flow.impl = "module"
                     THEN flow' = [flow EXCEPT !.pc = "code", !.first = o[1],
                                     !.prompts = Append(@, Prompt("Two Factor Code: ", FALSE))]
                     ELSE \E way \in QuestionAfterClose :
                            flow' = IF way = "throws"
                                    THEN Ended(flow, o[1], "Error", "ERR_USE_AFTER_CLOSE")
                                    ELSE [flow EXCEPT !.pc = "code", !.first = o[1],
                                            !.prompts = Append(@, Prompt("Two Factor Code: ", TRUE))]
                ELSE flow' = Ended(flow, o[1], o[1], o[2])
  /\ FlowUnchanged

\* The Two Factor Code prompt is answered (an open interface only calls back):
\* rl.close() in the module, then multiFactorAuthenticate to its await.
interactiveLogin_code(a) ==
  /\ flow.pc = "code"
  /\ ~flow.prompts[Len(flow.prompts)].closed
  /\ flow' = [flow EXCEPT !.pc = "mfa", !.code = a, !.answered = @ + 1,
                          !.reqs = Append(@, Req("mfa", "login", StoreOf(flow.impl)[2],
                                                 StoreOf(flow.impl)[1]))]
  /\ UNCHANGED <<token, headers, c_token, c_headers, c_file>>
  /\ FlowUnchanged

\* The login endpoint answers the MFA attempt.
mfa_answer(r) ==
  /\ flow.pc = "mfa"
  /\ LET o == IF flow.impl = "module" THEN multiFactorAuthenticate_outcome(r)
              ELSE c_multiFactorAuthenticate_outcome(r)
         st == StoreWithToken(flow.impl, r)
     IN IF o[1] = "ok"
        THEN /\ flow' = Ended(flow, flow.first, "ok", NoMsg)
             /\ StoreBecomes(flow.impl, st)
             /\ c_file' = FileAfterLogin(flow, st[1])
        ELSE /\ flow' = Ended(flow, flow.first, o[1], o[2])
             /\ UNCHANGED <<token, headers, c_token, c_headers, c_file>>
  /\ FlowUnchanged

LoginInit ==
  /\ uses \in Impls
  /\ envToken \in {UNDEFINED} \cup EnvTokens
  /\ token = NULL
  /\ headers = headersAtLoad(envToken)
  /\ c_token \in IF uses = "class" THEN CtorTokens ELSE {NULL}
  /\ c_headers = IF Truthy(c_token)
                 THEN SetHeader(BaseHeaders, AUTH_HEADER_KEY, TokenHeader(c_token))
                 ELSE BaseHeaders
  /\ c_file \in FileStates
  /\ auth = NoAuthCall
  /\ last = NoCall
  /\ poll = PollIdle
  /\ batch = BatchIdle
  /\ run = RunIdle
  /\ desc = NoDesc
  /\ flow = FlowIdle

FlowInteractiveLogin ==
  \E useSavedSession \in BOOLEAN, saveSession \in BOOLEAN :
    interactiveLogin_call(uses, useSavedSession, saveSession)
FlowEmail == \E a \in EmailAnswers : interactiveLogin_email(a)
FlowPassword == \E a \in PasswordAnswers : interactiveLogin_password(a)
FlowCode == \E a \in MfaCodes : interactiveLogin_code(a)
FlowLogin ==
  /\ uses = "class"
  /\ \E email \in EmailArgs, password \in PasswordArgs, useSavedSession \in BOOLEAN,
        saveSession \in BOOLEAN : c_login_call(email, password, useSavedSession, saveSession)
FlowLoginAnswer == \E r \in LoginResponses : login_answer(r)
FlowMfaAnswer == \E r \in LoginResponses : mfa_answer(r)

LoginNext ==
  \/ FlowInteractiveLogin
  \/ FlowEmail
  \/ FlowPassword
  \/ FlowCode
  \/ FlowLogin
  \/ FlowLoginAnswer
  \/ FlowMfaAnswer

SpecLogin == LoginInit /\ [][LoginNext]_vars

---------------------------------------------------------------------------
(* Request builders: what each hands to gqlCall(operation, graphqlQuery, variables) *)

\* The local time zone in hours east of UTC, and the local dates the clock may
\* show (month0 counts from 0, as getMonth() does).
TzOffsets == {-5, 0, 2}
Years == {2023, 2024}

IsLeap(y) == (y % 4 = 0 /\ y % 100 # 0) \/ y % 400 = 0

DaysIn(y, month0) ==
  CASE month0 = 1 -> IF IsLeap(y) THEN 29 ELSE 28
    [] month0 \in {3, 5, 8, 10} -> 30
    [] OTHER -> 31

Day(y, month0, d) == [y |-> y, month0 |-> month0, d |-> d]

NoDate == Day(0, 0, 0)

Clock == {t \in {Day(y, m, d) : y \in Years, m \in 0..11, d \in {1, 29}} : t.d <= DaysIn(t.y, t.month0)}

\* new Date(y, month0, d): a month outside 0..11 carries into the year, day 0 is
\* the last day of the month before, a day past the month's end carries over.
NewDate(y, month0, d) ==
  LET yy == y + (month0 \div 12)
      mm == month0 % 12
  IN IF d = 0
       THEN IF mm = 0 THEN Day(yy - 1, 11, 31) ELSE Day(yy, mm - 1, DaysIn(yy, mm - 1))
     ELSE IF d > DaysIn(yy, mm)
       THEN IF mm = 11 THEN Day(yy + 1, 0, d - 31) ELSE Day(yy, mm + 1, d - DaysIn(yy, mm))
     ELSE Day(yy, mm, d)

\* The UTC date of local midnight of dt: east of UTC it is still the day before.
toUTC(dt, tz) == IF tz > 0 THEN NewDate(dt.y, dt.month0, dt.d - 1) ELSE dt

Digit(n) == <<"0", "1", "2", "3", "4", "5", "6", "7", "8", "9">>[n + 1]

RECURSIVE Dec(_)
Dec(n) == IF n < 10 THEN Digit(n) ELSE Dec(n \div 10) \o Digit(n % 10)

Pad2(n) == IF n < 10 THEN "0" \o Dec(n) ELSE Dec(n)

IsoDate(u) == Dec(u.y) \o "-" \o Pad2(u.month0 + 1) \o "-" \o Pad2(u.d)

\* date.toISOString().split("T")[0] for a Date made at local midnight.
toISOString_date(dt, tz) == IsoDate(toUTC(dt, tz))

\* Boolean(v), where "false" and "0" stand for the boolean and the number.
Boolean(v) == IF v \in {NULL, UNDEFINED, EMPTY, "false", "0"} THEN "false" ELSE "true"

\* A variables object: a function from <<name, field>> to the value sent, the
\* field being "" for a top-level scalar.
None == [k \in {} |-> EMPTY]

Put(cond, top, sub, v) == IF cond THEN <<top, sub>> :> v ELSE None

\* The two kinds of value a builder passes on: a gql document with the variable
\* names its header declares, and a variables object.
Document(name, declares) == [kind |-> "document", name |-> name, declares |-> declares]
Variables(map) == [kind |-> "variables", map |-> map]
NoArg == [kind |-> "none"]

\* `return await gqlCall(operation, graphqlQuery, variables)`: the three values
\* bound to gqlCall's parameters, in their positions.
Handed(impl, op, args, today, tz, operation, graphqlQuery, variables) ==
  [impl |-> impl, op |-> op, args |-> args, today |-> today, tz |-> tz, outcome |-> "ok",
   operation |-> operation, graphqlQuery |-> graphqlQuery, variables |-> variables]

\* `throw new Error(...)` before gqlCall.
Refused(impl, op, args, today, tz) ==
  [impl |-> impl, op |-> op, args |-> args, today |-> today, tz |-> tz, outcome |-> "Error",
   operation |-> UNDEFINED, graphqlQuery |-> NoArg, variables |-> NoArg]

Flags == {NULL, "false"}
Texts == {NULL, EMPTY, "text"}

getTransactions_gqlCall(a) ==
  IF getTransactions_rejects(a.startDate, a.endDate)
  THEN Refused("module", "getTransactions", a, NoDate, 0)
  ELSE Handed("module", "getTransactions", a, NoDate, 0, "GetTransactionsList",
         Document("GetTransactionsList", {"offset", "limit", "filters", "orderBy"}),
         Variables(Put(TRUE, "offset", "", "0") @@ Put(TRUE, "limit", "", "100")
           @@ Put(TRUE, "orderBy", "", "date")
           @@ Put(TRUE, "filters", "search", EMPTY) @@ Put(TRUE, "filters", "categories", "[]")
           @@ Put(TRUE, "filters", "accounts", "[]") @@ Put(TRUE, "filters", "tags", "[]")
           @@ Put(a.hasAttachments # NULL, "filters", "hasAttachments", a.hasAttachments)
           @@ Put(a.hasNotes # NULL, "filters", "hasNotes", a.hasNotes)
           @@ Put(a.hiddenFromReports # NULL, "filters", "hideFromReports", a.hiddenFromReports)
           @@ Put(a.isRecurring # NULL, "filters", "isRecurring", a.isRecurring)
           @@ Put(a.isSplit # NULL, "filters", "isSplit", a.isSplit)
           @@ Put(a.importedFromMint # NULL, "filters", "importedFromMint", a.importedFromMint)
           @@ Put(a.syncedFromInstitution # NULL, "filters", "syncedFromInstitution",
                  a.syncedFromInstitution)
           @@ Put(Truthy(a.startDate) /\ Truthy(a.endDate), "filters", "startDate", a.startDate)
           @@ Put(Truthy(a.startDate) /\ Truthy(a.endDate), "filters", "endDate", a.endDate)))

updateTransaction_gqlCall(a) ==
  Handed("module", "updateTransaction", a, NoDate, 0, "Web_TransactionDrawerUpdateTransaction",
    Document("Web_TransactionDrawerUpdateTransaction", {"input"}),
    Variables(Put(TRUE, "input", "id", "txn1")
      @@ Put(Truthy(a.categoryId), "input", "category", a.categoryId)
      @@ Put(Truthy(a.merchantName), "input", "name", a.merchantName)
      @@ Put(a.amount # NULL, "input", "amount", a.amount)
      @@ Put(Truthy(a.date), "input", "date", a.date)
      @@ Put(a.hideFromReports # NULL, "input", "hideFromReports", Boolean(a.hideFromReports))
      @@ Put(a.needsReview # NULL, "input", "needsReview", Boolean(a.needsReview))
      @@ Put(a.goalId # NULL, "input", "goalId", a.goalId)
      @@ Put(a.notes # NULL, "input", "notes", a.notes)))

updateAccount_gqlCall(a) ==
  Handed("module", "updateAccount", a, NoDate, 0, "Common_UpdateAccount",
    Document("Common_UpdateAccount", {"input"}),
    Variables(Put(TRUE, "input", "id", "acc1")
      @@ Put(Truthy(a.accountType), "input", "type", a.accountType)
      @@ Put(Truthy(a.accountSubType), "input", "subtype", a.accountSubType)
      @@ Put(a.includeInNetWorth # NULL, "input", "includeInNetWorth", a.includeInNetWorth)
      @@ Put(a.hideFromSummaryList # NULL, "input", "hideFromList", a.hideFromSummaryList)
      @@ Put(a.hideTransactionsFromReports # NULL, "input", "hideTransactionsFromReports",
             a.hideTransactionsFromReports)
      @@ Put(Truthy(a.accountName), "input", "name", a.accountName)
      @@ Put(a.accountBalance # NULL, "input", "displayBalance", a.accountBalance)))

\* `${date.getFullYear()}-${date.getMonth() + 1}-01` after setFullYear(year - 150).
getAggregateSnapshots_startDate(today) ==
  LET date == NewDate(today.y - 150, today.month0, today.d)
  IN Dec(date.y) \o "-" \o Dec(date.month0 + 1) \o "-01"

getAggregateSnapshots_gqlCall(a, today, tz) ==
  Handed("module", "getAggregateSnapshots", a, today, tz, "GetAggregateSnapshots",
    Document("GetAggregateSnapshots", {"filters"}),
    Variables(Put(TRUE, "filters", "startDate",
                  IF ~Truthy(a.startDate) THEN getAggregateSnapshots_startDate(today)
                  ELSE a.startDate)
      @@ Put(TRUE, "filters", "endDate", a.endDate)
      @@ Put(TRUE, "filters", "accountType", a.accountType)))

setBudgetAmount_gqlCall(a, today, tz) ==
  IF setBudgetAmount_rejects(a.categoryId, a.categoryGroupId)
  THEN Refused("module", "setBudgetAmount", a, today, tz)
  ELSE Handed("module", "setBudgetAmount", a, today, tz, "Common_UpdateBudgetItem",
         Document("Common_UpdateBudgetItem", {"input"}),
         Variables(Put(TRUE, "input", "amount", "10") @@ Put(TRUE, "input", "timeframe", "month")
           @@ Put(TRUE, "input", "categoryId", a.categoryId)
           @@ Put(TRUE, "input", "categoryGroupId", a.categoryGroupId)
           @@ Put(TRUE, "input", "applyToFuture", "false")
           @@ Put(TRUE, "input", "startDate",
                  IF Truthy(a.startDate) THEN a.startDate
                  ELSE toISOString_date(NewDate(today.y, today.month0, 1), tz))))

startOfMonth(now) == NewDate(now.y, now.month0, 1)
endOfMonth(now) == NewDate(now.y, now.month0 + 1, 0)

\* getCashflow and getCashflowSummary build the same variables object.
cashflow_variables(a, now, tz) ==
  LET given == Truthy(a.startDate) /\ Truthy(a.endDate)
  IN Put(TRUE, "limit", "", "100") @@ Put(TRUE, "orderBy", "", "date")
     @@ Put(TRUE, "filters", "search", EMPTY) @@ Put(TRUE, "filters", "categories", "[]")
     @@ Put(TRUE, "filters", "accounts", "[]") @@ Put(TRUE, "filters", "tags", "[]")
     @@ Put(TRUE, "filters", "startDate",
            IF given THEN a.startDate ELSE toISOString_date(startOfMonth(now), tz))
     @@ Put(TRUE, "filters", "endDate",
            IF given THEN a.endDate ELSE toISOString_date(endOfMonth(now), tz))

getCashflow_gqlCall(a, now, tz) ==
  IF getCashflow_rejects(a.startDate, a.endDate)
  THEN Refused("module", "getCashflow", a, now, tz)
  ELSE Handed("module", "getCashflow", a, now, tz, "Web_GetCashFlowPage",
         Document("Web_GetCashFlowPage", {"filters"}), Variables(cashflow_variables(a, now, tz)))

getCashflowSummary_gqlCall(a, now, tz) ==
  IF getCashflowSummary_rejects(a.startDate, a.endDate)
  THEN Refused("module", "getCashflowSummary", a, now, tz)
  ELSE Handed("module", "getCashflowSummary", a, now, tz, "Web_GetCashFlowPage",
         Document("Web_GetCashFlowPage", {"filters"}), Variables(cashflow_variables(a, now, tz)))

getRecurringTransactions_gqlCall(a, now, tz) ==
  IF getRecurringTransactions_rejects(a.startDate, a.endDate)
  THEN Refused("module", "getRecurringTransactions", a, now, tz)
  ELSE LET unset == a.startDate = NULL /\ a.endDate = NULL
       IN Handed("module", "getRecurringTransactions", a, now, tz,
            "Web_GetUpcomingRecurringTransactionItems",
            Document("Web_GetUpcomingRecurringTransactionItems",
                     {"startDate", "endDate", "filters"}),
            Variables(Put(TRUE, "startDate", "",
                          IF unset THEN toISOString_date(startOfMonth(now), tz) ELSE a.startDate)
              @@ Put(TRUE, "endDate", "",
                     IF unset THEN toISOString_date(endOfMonth(now), tz) ELSE a.endDate)))

\* The Dates from which getBudgets takes its default range.
getBudgets_lastMonth(today) == NewDate(today.y, today.month0 - 1, 1)

m_getBudgets_nextMonth_sameAsClass(today) == NewDate(today.y, today.month0 + 1, 0)
m_getBudgets_nextMonth(today) == NewDate(today.y, today.month0 + 2, 0)
c_getBudgets_nextMonth(today) == NewDate(today.y, today.month0 + 1, 0)

\* Both implementations: they differ in the Date the default endDate comes from.
getBudgets_gqlCall(impl, a, today, tz) ==
  IF getBudgets_rejects(a.startDate, a.endDate)
  THEN Refused(impl, "getBudgets", a, today, tz)
  ELSE LET unset == ~Truthy(a.startDate) /\ ~Truthy(a.endDate)
       IN Handed(impl, "getBudgets", a, today, tz, "GetJointPlanningData",
            Document("GetJointPlanningData",
                     {"startDate", "endDate", "useLegacyGoals", "useV2Goals"}),
            Variables(Put(TRUE, "startDate", "",
                          IF unset THEN toISOString_date(getBudgets_lastMonth(today), tz)
                          ELSE a.startDate)
              @@ Put(TRUE, "endDate", "",
                     IF ~unset THEN a.endDate
                     ELSE IF impl = "module"
                       THEN toISOString_date(m_getBudgets_nextMonth(today), tz)
                     ELSE toISOString_date(c_getBudgets_nextMonth(today), tz))
              @@ Put(TRUE, "useLegacyGoals", "", "false")
              @@ Put(TRUE, "useV2Goals", "", "true")))

\* Both implementations end with gqlCall("GetTransactionDrawer", variables, query).
getTransactionDetails_gqlCall(impl, a) ==
  Handed(impl, "getTransactionDetails", a, NoDate, 0, "GetTransactionDrawer",
    Variables(Put(TRUE, "id", "", "txn1") @@ Put(TRUE, "redirectPosted", "", a.redirectPosted)),
    Document("GetTransactionDrawer", {"id", "redirectPosted"}))

\* A builder keeps nothing from one call to the next: each behaviour follows one
\* call, made on the store as it is after loading.
Fresh == desc = NoDesc

BuildUnchanged ==
  UNCHANGED <<uses, envToken, token, headers, c_token, c_headers, c_file, auth, last, poll,
              batch, run, flow>>

DatePairArgs == [startDate : DateArgs, endDate : DateArgs]

GetTransactions ==
  /\ Fresh
  /\ \E a \in [startDate : DateArgs, endDate : DateArgs, hasAttachments : Flags, hasNotes : Flags,
               hiddenFromReports : Flags, isSplit : Flags, isRecurring : Flags,
               importedFromMint : Flags, syncedFromInstitution : Flags] :
       desc' = getTransactions_gqlCall(a) /\ BuildUnchanged

UpdateTransaction ==
  /\ Fresh
  /\ \E a \in [categoryId : Texts, merchantName : Texts, goalId : {NULL, "goal1"},
               amount : {NULL, "0"}, date : DateArgs, hideFromReports : {NULL, "true", "false"},
               needsReview : Flags, notes : {NULL, EMPTY}] :
       desc' = updateTransaction_gqlCall(a) /\ BuildUnchanged

UpdateAccount ==
  /\ Fresh
  /\ \E a \in [accountName : Texts, accountBalance : {NULL, "0"}, accountType : Texts,
               accountSubType : {NULL, "text"}, includeInNetWorth : Flags,
               hideFromSummaryList : Flags, hideTransactionsFromReports : Flags] :
       desc' = updateAccount_gqlCall(a) /\ BuildUnchanged

GetAggregateSnapshots ==
  /\ Fresh
  /\ \E a \in [startDate : DateArgs, endDate : DateArgs, accountType : {NULL, "text"}],
        today \in Clock, tz \in TzOffsets :
       desc' = getAggregateSnapshots_gqlCall(a, today, tz) /\ BuildUnchanged

BuildSetBudgetAmount ==
  /\ Fresh
  /\ \E a \in [categoryId : CategoryIds, categoryGroupId : CategoryGroupIds, startDate : DateArgs],
        today \in Clock, tz \in TzOffsets :
       desc' = setBudgetAmount_gqlCall(a, today, tz) /\ BuildUnchanged

GetCashflow ==
  /\ Fresh
  /\ \E a \in DatePairArgs, now \in Clock, tz \in TzOffsets :
       desc' = getCashflow_gqlCall(a, now, tz) /\ BuildUnchanged

GetCashflowSummary ==
  /\ Fresh
  /\ \E a \in DatePairArgs, now \in Clock, tz \in TzOffsets :
       desc' = getCashflowSummary_gqlCall(a, now, tz) /\ BuildUnchanged

GetRecurringTransactions ==
  /\ Fresh
  /\ \E a \in DatePairArgs, now \in Clock, tz \in TzOffsets :
       desc' = getRecurringTransactions_gqlCall(a, now, tz) /\ BuildUnchanged

GetBudgets ==
  /\ Fresh
  /\ \E a \in DatePairArgs, today \in Clock, tz \in TzOffsets :
       desc' = getBudgets_gqlCall(uses, a, today, tz) /\ BuildUnchanged

GetTransactionDetails ==
  /\ Fresh
  /\ \E a \in [redirectPosted : {"true", "false"}] :
       desc' = getTransactionDetails_gqlCall(uses, a) /\ BuildUnchanged

BuildNext ==
  \/ GetTransactions
  \/ UpdateTransaction
  \/ UpdateAccount
  \/ GetAggregateSnapshots
  \/ BuildSetBudgetAmount
  \/ GetCashflow
  \/ GetCashflowSummary
  \/ GetRecurringTransactions
  \/ GetBudgets
  \/ GetTransactionDetails

SpecBuild == PollInit /\ [][BuildNext]_vars

---------------------------------------------------------------------------
(* Properties *)

\* The call supplies exactly one of the two dates and leaves the other null.
ExactlyOneDate(startDate, endDate) ==
  (startDate \in Dates /\ endDate = NULL) \/ (startDate = NULL /\ endDate \in Dates)

\* The transport of the implementation admitted a call made with this store.
Admitted(call) == call.impl = "class" \/ HasHeader(call.pre[2], AUTH_HEADER_KEY)

\* The call ended with the validation error before it invoked its transport, so
\* that nothing was sent.
FailedValidation(call, msg) ==
  call.outcome = "Error" /\ call.msg = msg /\ call.calls = 0 /\ call.reqs = <<>>

\* The call got past its validation: it handed one request to its transport,
\* which sent it if it admitted the call and refused it otherwise.
Dispatched(call, msg) ==
  /\ ~(call.outcome = "Error" /\ call.msg = msg)
  /\ call.calls = 1
  /\ IF Admitted(call) THEN Len(call.reqs) = 1
     ELSE call.reqs = <<>> /\ call.outcome = "LoginFailedException"

\* C1 as stated: each of the six date-pair operations, called with exactly one of
\* startDate and endDate, fails with the validation error and sends no request.
C1_AllSixRejectHalfPair ==
  (last.op \in DatePairOps /\ ExactlyOneDate(last.args[1], last.args[2]))
    => FailedValidation(last, BOTH_DATES)

\* C1 (amended): getBudgets, getTransactions, getCashflow, getCashflowSummary and
\* getRecurringTransactions, called with exactly one of startDate and endDate,
\* fail with the validation error and send no request; getAggregateSnapshots does
\* not validate the pair and hands such a call to the transport, which sends one
\* request when it admits the call.
C1_FiveRejectHalfPair ==
  (last.op \in DatePairOps /\ ExactlyOneDate(last.args[1], last.args[2]))
    => IF last.op # "getAggregateSnapshots"
       THEN FailedValidation(last, BOTH_DATES)
       ELSE Dispatched(last, BOTH_DATES)

C1_Witness ==
  /\ last.op = "getRecurringTransactions"
  /\ last.args = <<NULL, "2024-01-01">>
  /\ Admitted(last)
  /\ FailedValidation(last, BOTH_DATES)

\* C2: setBudgetAmount fails validation, with one and the same error and before
\* anything is sent, when neither id and when both ids are given; with exactly one
\* id given validation passes and one request is dispatched: handed to the
\* transport, which sends it unless it refuses the call for want of credentials.
C2_ExactlyOneId ==
  last.op = "setBudgetAmount"
    => IF (last.args[1] = NULL) = (last.args[2] = NULL)
       THEN FailedValidation(last, EITHER_ID)
       ELSE Dispatched(last, EITHER_ID)

C2_Witness ==
  /\ last.op = "setBudgetAmount"
  /\ last.impl = "module"
  /\ last.args = <<NULL, "grp1">>
  /\ Len(last.reqs) = 1
  /\ last.outcome = "ok"

\* C3: a first login call answered with HTTP 403 raises RequireMFAException, which
\* is no LoginFailedException, and leaves getToken() and getHeaders() as they were
\* when the call was made.
C3_Mfa403LeavesStore ==
  (last.op = "loginUser" /\ last.resp.kind = "http" /\ last.resp.status = 403)
    => /\ InstanceOf(last.outcome, "RequireMFAException")
       /\ ~InstanceOf(last.outcome, "LoginFailedException")
       /\ getToken = last.pre[1]
       /\ getHeaders = last.pre[2]

C3_Witness ==
  /\ last.op = "loginUser"
  /\ last.resp.kind = "http"
  /\ last.resp.status = 403
  /\ last.outcome = "RequireMFAException"
  /\ last.pre[1] \in Tokens
  /\ getToken = last.pre[1]

\* C4: after loginUser or multiFactorAuthenticate is answered with HTTP 200 and
\* {token: T}, getToken() is T and the Authorization header is Token T; and every
\* query request sent while T is the token last set carries Authorization: Token T.
C4_TokenReachesQueries ==
  /\ (/\ last.op \in {"loginUser", "multiFactorAuthenticate"}
      /\ last.resp.kind = "http"
      /\ last.resp.status = 200
      /\ last.resp.body.json
      /\ last.resp.body.token \in Tokens)
       => /\ last.outcome = "ok"
          /\ getToken = last.resp.body.token
          /\ AuthOf(getHeaders) = "Token " \o last.resp.body.token
  /\ \A i \in DOMAIN last.reqs :
       (last.impl = "module" /\ last.reqs[i].kind = "query" /\ last.reqs[i].held \in Tokens)
         => last.reqs[i].auth = "Token " \o last.reqs[i].held

C4_Witness ==
  /\ last.impl = "module"
  /\ last.op = "getBudgets"
  /\ envToken \in EnvTokens
  /\ Len(last.reqs) = 1
  /\ last.reqs[1].held = "tokB"
  /\ last.reqs[1].auth = "Token tokB"

\* C5: loadSession, in a client that holds no token, of a file that saveSession
\* wrote while the store held token T, sends no request and leaves the store
\* holding T with the Authorization header Token T.
C5_SessionRoundTrip ==
  (/\ last.impl = "class"
   /\ last.op = "loadSession"
   /\ \E t \in Tokens : last.args[1] = JSON_stringify(t)
   /\ ~Truthy(last.pre[1]))
    => /\ last.outcome = "ok"
       /\ last.reqs = <<>>
       /\ c_token = JSON_parse_token(last.args[1])
       /\ AuthOf(c_headers) = "Token " \o JSON_parse_token(last.args[1])

\* C6: against the stub that says 'in progress' N times and then 'complete', and
\* with time passing only in the delays, a finished requestAccountsRefreshAndWait
\* returned true if T >= N*D, and if T < N*D returned false no earlier than T
\* after polling started.
C6_PollResult ==
  (poll.pc = "done" /\ poll.outcome = "ok")
    => IF poll.timeout >= poll.N * poll.delay
       THEN poll.ret = TRUE
       ELSE poll.ret = FALSE /\ poll.now - poll.start >= poll.timeout * MsPerSecond

C6_Witness ==
  /\ poll.pc = "done"
  /\ poll.outcome = "ok"
  /\ poll.N = 2
  /\ poll.delay = 1
  /\ poll.timeout = 2
  /\ poll.checks = 3
  /\ poll.ret = TRUE

\* The entry the batch owes for its i-th id: true for a deletion that succeeded,
\* the error for one that failed.
OwedEntry(i) ==
  IF ~batch.sent[i] THEN "LoginFailedException"
  ELSE IF batch.answers[i].kind = "failure" THEN "ClientError"
  ELSE IF batch.answers[i].flag THEN "true"
  ELSE "RequestFailedException"

\* C7: deleteTransactionCategories resolves, never rejects, to one entry per input
\* id in input order, true or the error of that deletion, and every deletion the
\* transport admits is sent, whatever happens to the others.
C7_OneOutcomePerId ==
  batch.pc = "done"
    => /\ batch.outcome = "ok"
       /\ Len(batch.ret) = Len(batch.categoryIds)
       /\ \A i \in DOMAIN batch.categoryIds :
            /\ batch.ret[i] = OwedEntry(i)
            /\ batch.sent[i] = (uses = "class" \/ HasHeader(StoreOf(uses)[2], AUTH_HEADER_KEY))

\* C8: deleteTransaction, deleteTransactionCategory, deleteAccount and
\* requestAccountsRefresh, answered with a false deleted/success flag, raise
\* RequestFailedException from which the remote errors list can be read, and do
\* not return normally.
C8_FalseFlagRaises ==
  (last.op \in FlagOps /\ last.resp.kind = "data" /\ ~last.resp.flag)
    => /\ last.outcome = "RequestFailedException"
       /\ {l \in ErrorLists : ErrMessage(l) = last.msg} = {last.resp.errors}

\* C9: no query, mutation or upload request is sent by a store that holds no
\* token (no token and no Authorization header); only login and MFA requests are.
C9_NoRequestWithoutToken ==
  \A i \in DOMAIN last.reqs :
    (last.reqs[i].auth = NoAuth /\ ~Truthy(last.reqs[i].held))
      => last.reqs[i].kind \in {"login", "mfa"}

\* C10: getHeaders() is a mapping, and it has no Authorization entry whenever
\* getToken() is null or undefined.
C10_NoTokenNoAuthorization ==
  /\ DOMAIN getHeaders \subseteq {"Client-Platform", AUTH_HEADER_KEY}
  /\ getToken \in {NULL, UNDEFINED} => AUTH_HEADER_KEY \notin DOMAIN getHeaders

\* The token and the Authorization header of a store agree: the header is the
\* one setToken derives from the token, or the store is as the module load left it.
Agree(tok, authHeader) ==
  \/ authHeader = TokenHeader(tok)
  \/ tok = NULL /\ authHeader = AuthOf(headersAtLoad(envToken))

\* C11: after setToken(t) getToken() is t and the Authorization header is
\* Token t, and no other operation (a read of the store, a query dispatch, a
\* login call) finds a store whose token and header disagree.
C11_SetTokenAtomic ==
  /\ (last.op = "setToken" /\ run.pc = "idle")
       => getToken = last.args[1] /\ AuthOf(getHeaders) = TokenHeader(last.args[1])
  /\ last.impl = "module" => Agree(last.pre[1], AuthOf(last.pre[2]))
  /\ \A i \in DOMAIN last.reqs : Agree(last.reqs[i].held, last.reqs[i].auth)
  /\ auth.fn # "none" => Agree(auth.pre[1], AuthOf(auth.pre[2]))

C11_Witness ==
  /\ last.op = "getBudgets"
  /\ Len(last.reqs) = 1
  /\ last.pre[1] = "tokB"
  /\ last.reqs[1].auth = "Token tokB"
  /\ auth.fn = "loginUser"
  /\ auth.pre[1] = "tokA"
  /\ run.pc = "header"

\* How the login step op ends on the answer r.
LoginOutcome(op, r) ==
  IF op = "loginUser" THEN loginUser_outcome(r) ELSE multiFactorAuthenticate_outcome(r)

\* The HTTP answers on which the login step op throws an exception of class cls
\* with message msg: what a caller holding the exception can tell of the answer.
ToldBy(op, cls, msg) ==
  {r \in LoginResponses : r.kind = "http" /\ LoginOutcome(op, r) = <<cls, msg>>}

\* C12: at either login step an HTTP status other than 200 (and other than 403 at
\* the first step) ends the call with LoginFailedException, and the exception
\* tells both the HTTP status and the remote error code of the answer.
C12_LoginFailureCarriesBoth ==
  (/\ last.op \in {"loginUser", "multiFactorAuthenticate"}
   /\ last.resp.kind = "http"
   /\ last.resp.status # 200
   /\ ~(last.op = "loginUser" /\ last.resp.status = 403))
    => /\ last.outcome = "LoginFailedException"
       /\ \A r \in ToldBy(last.op, last.outcome, last.msg) :
            /\ r.status = last.resp.status
            /\ r.body[ERRORS_KEY] = last.resp.body[ERRORS_KEY]

\* The session file existed when the flow was called, and the flow had opted in
\* to its use.
UsesSavedSession(f) == f.useSavedSession /\ f.file0 # FileAbsent

\* C13: login or interactiveLogin called with useSavedSession = true while the
\* session file exists (holding a token) sends no request and returns with the
\* file's token in the store; login does so whatever email and password are.
C13_SavedSessionSkipsNetwork ==
  (/\ flow.pc # "idle"
   /\ UsesSavedSession(flow)
   /\ IsJson(flow.file0)
   /\ JSON_parse_token(flow.file0) \in Tokens)
    => /\ flow.reqs = <<>>
       /\ flow.pc = "done"
            => /\ flow.outcome = "ok"
               /\ StoreOf(flow.impl)[1] = JSON_parse_token(flow.file0)
               /\ AuthOf(StoreOf(flow.impl)[2]) = TokenHeader(JSON_parse_token(flow.file0))

\* C14: MonarchMoney.login called with useSavedSession = true while the session
\* file exists and is not parseable fails with the parse error, sends no request
\* (no credential login is tried) and leaves the token and headers as they were.
C14_CorruptSessionFailsFast ==
  (/\ flow.pc = "done"
   /\ flow.impl = "class"
   /\ UsesSavedSession(flow)
   /\ ~IsJson(flow.file0))
    => /\ flow.outcome = "SyntaxError"
       /\ flow.reqs = <<>>
       /\ StoreOf("class") = flow.pre
       /\ c_file = flow.file0

C14_Witness ==
  /\ flow.pc = "done"
  /\ flow.fn = "login"
  /\ flow.useSavedSession
  /\ flow.file0 = CORRUPT
  /\ flow.email = "user@example.com"
  /\ flow.password = "hunter2"
  /\ flow.outcome = "SyntaxError"
  /\ flow.pre[1] = "tokB"
  /\ c_token = "tokB"

\* C15: when login or interactiveLogin has ended Authenticated through a login
\* request or an MFA request, the session file holds {token: T} for the token T
\* of the store if the save-session option was on, and is as it was if it was off.
C15_SavedOnAuthenticated ==
  (flow.pc = "done" /\ flow.outcome = "ok" /\ flow.reqs # <<>>)
    => IF flow.saveSession
       THEN c_file = JSON_stringify(StoreOf(flow.impl)[1])
       ELSE c_file = flow.file0

NoneRepeated(reqs) ==
  \A i \in DOMAIN reqs : \A j \in DOMAIN reqs : i # j => reqs[i].opName # reqs[j].opName

\* The request of the call failed, or the login endpoint refused it.
RequestFailed(call) ==
  \/ call.resp.kind = "failure"
  \/ /\ call.op \in {"loginUser", "multiFactorAuthenticate"}
     /\ call.resp.kind = "http"
     /\ call.resp.status # 200

\* C16 as stated: no invocation of loginUser, of multiFactorAuthenticate or of a
\* request builder sends more than one request, and a failed request makes the
\* call throw.
C16_AtMostOneRequest ==
  /\ Len(last.reqs) <= 1
  /\ RequestFailed(last) => InstanceOf(last.outcome, "Error")

\* C16 (amended): every transport call of an invocation sends at most one
\* request; loginUser, multiFactorAuthenticate and every request builder that
\* makes a single transport call therefore send at most one, also when it
\* fails; requestAccountsRefreshAndDontWait makes at most two transport calls
\* (the account list, then the trigger) and repeats neither; a failed request
\* makes the call throw.
C16_NoRetry ==
  /\ Len(last.reqs) <= last.calls
  /\ NoneRepeated(last.reqs)
  /\ last.calls <= IF last.op = "requestAccountsRefreshAndDontWait" THEN 2 ELSE 1
  /\ RequestFailed(last) => InstanceOf(last.outcome, "Error")

C16_Witness ==
  /\ last.op = "deleteTransaction"
  /\ last.resp.kind = "failure"
  /\ Len(last.reqs) = 1
  /\ last.calls = 1
  /\ last.outcome = "ClientError"

\* C17: with MONARCH_TOKEN = E in the environment at module load and no login
\* or MFA request ever made, a module-level request builder that gets past its
\* validation sends its query, and every query sent carries Authorization: Token E.
C17_EnvTokenBypassesLogin ==
  (/\ last.impl = "module"
   /\ envToken \in EnvTokens
   /\ last.pre[1] = NULL
   /\ last.op \in DatePairOps \cup FlagOps \cup {"setBudgetAmount"})
    => /\ last.calls = 1 => Len(last.reqs) = 1
       /\ \A i \in DOMAIN last.reqs :
            /\ last.reqs[i].kind = "query"
            /\ last.reqs[i].auth = "Token " \o envToken

C17_Witness ==
  /\ last.impl = "module"
  /\ envToken = "tokE"
  /\ getToken = NULL
  /\ last.op = "getTransactions"
  /\ last.args = <<NULL, NULL>>
  /\ last.outcome = "ok"
  /\ Len(last.reqs) = 1
  /\ last.reqs[1].auth = "Token tokE"

\* C19: isAccountsRefreshComplete(accountIds), given a list of ids, returns true
\* if and only if every listed account whose id is among accountIds has
\* hasSyncInProgress = false, whatever the other accounts of the list are.
C19_OnlyRequestedAccountsCount ==
  (/\ last.op = "isAccountsRefreshComplete"
   /\ last.outcome = "ok"
   /\ last.args[1] # NullIds)
    => (last.ret = "true"
          <=> \A i \in DOMAIN last.resp.accounts :
                Includes(last.args[1], last.resp.accounts[i].id)
                  => ~last.resp.accounts[i].hasSyncInProgress)

\* C20: requestAccountsRefreshAndWait issues one refresh trigger, and issues it
\* before any status check; a trigger answered with success = false ends the call
\* with RequestFailedException and without a status check; and each status check
\* follows a wait of the full delay.
C20_TriggerThenChecks ==
  poll.pc # "idle"
    => /\ poll.triggers <= 1
       /\ (poll.checks > 0 \/ poll.pc \in {"loop", "sleep", "check"} \/ poll.outcome = "ok")
            => poll.triggers = 1
       /\ (last.op = "requestAccountsRefresh" /\ last.resp.kind = "data" /\ ~last.resp.flag)
            => /\ poll.pc = "done"
               /\ poll.outcome = "RequestFailedException"
               /\ poll.checks = 0
       /\ poll.waits = poll.checks + (IF poll.pc = "check" THEN 1 ELSE 0)
       /\ poll.now - poll.start = poll.waits * poll.delay * MsPerSecond

C20_Witness ==
  /\ poll.pc = "done"
  /\ poll.outcome = "ok"
  /\ poll.triggers = 1
  /\ poll.delay = 2
  /\ poll.checks = 2
  /\ poll.waits = 2
  /\ poll.now - poll.start = 4 * MsPerSecond

\* C21: with a positive delay and whatever the status answers are, a
\* requestAccountsRefreshAndWait that has reached its loop eventually returns,
\* normally, the boolean of its last status answer: false when the deadline ends
\* the loop, never an error.
C21_PollTerminates ==
  (poll.pc = "loop")
    ~> (poll.pc = "done" /\ poll.outcome = "ok" /\ poll.ret = poll.refreshed)

C21_Witness ==
  /\ poll.pc = "done"
  /\ poll.outcome = "ok"
  /\ poll.ret = FALSE
  /\ poll.checks = MaxTimeout + 1
  /\ poll.now > poll.start + poll.timeout * MsPerSecond

\* C30: after a successful trigger, and with time passing only in the delays, a
\* finished requestAccountsRefreshAndWait(ids, T, D) has made at least one status
\* check, also when T is 0, and at most floor(T/D) + 1; and it returns the answer
\* of its last check, true for 'complete' also when that check ended after T.
C30_CheckCount ==
  (poll.pc \in {"loop", "sleep", "check", "done"} /\ poll.triggers = 1 /\ poll.outcome # "RequestFailedException"
     /\ poll.outcome # "ClientError")
    => /\ poll.checks <= (poll.timeout \div poll.delay) + 1
       /\ poll.pc = "done"
            => /\ poll.checks >= 1
               /\ poll.outcome = "ok"
               /\ poll.ret = poll.refreshed

C30_Witness ==
  /\ poll.pc = "done"
  /\ poll.timeout = 0
  /\ poll.checks = 1
  /\ poll.now > poll.start + poll.timeout * MsPerSecond
  /\ poll.ret = TRUE

\* The operations that belong to the Auth Flow or to the construction of a client.
StoreWriters == {"loginUser", "multiFactorAuthenticate", "constructor", "set token", "loadSession"}

\* C27: no step that completes a request-builder call (query, mutation, upload)
\* changes the token or the header mapping of either store: whatever the order of
\* the calls, only the Auth Flow's steps change them.
C27_BuildersLeaveStore ==
  [][last'.op \notin StoreWriters => UNCHANGED <<token, headers, c_token, c_headers>>]_vars

C27_Witness ==
  /\ last.impl = "module"
  /\ last.op = "deleteTransaction"
  /\ last.outcome = "ok"
  /\ last.pre[1] = "tokA"
  /\ getToken = "tokA"
  /\ auth.fn = "loginUser"

\* C29: a loginUser or multiFactorAuthenticate call that ended in an error (HTTP
\* 403, another non-200 status, a failed request or any other throw) has left
\* getToken() and getHeaders() as they were when it was called: a token set by
\* an earlier login is still there.
C29_FailedLoginLeavesStore ==
  (last.op \in {"loginUser", "multiFactorAuthenticate"} /\ last.outcome # "ok")
    => getToken = last.pre[1] /\ getHeaders = last.pre[2]

C29_Witness ==
  /\ last.op = "multiFactorAuthenticate"
  /\ last.resp.kind = "http"
  /\ last.resp.status = 401
  /\ last.outcome = "LoginFailedException"
  /\ last.pre[1] = "tokA"
  /\ getToken = "tokA"
  /\ AuthOf(getHeaders) = "Token tokA"

\* C26: every completed loginUser call, with or without an mfaSecretKey, has put
\* exactly one login request on the network and has ended as the status of the
\* answer to it says.
C26_SecretKeyLoginSendsOneRequest ==
  (last.impl = "module" /\ last.op = "loginUser")
    => /\ Len(last.reqs) = 1
       /\ last.reqs[1].kind = "login"
       /\ last.outcome = loginUser_outcome(last.resp)[1]

\* The optional parameters of an operation, each with the place in the variables
\* where the operation sends it.
OptionalParams(op) ==
  CASE op = "getTransactions" ->
         {<<"hasAttachments", <<"filters", "hasAttachments">>>>,
          <<"hasNotes", <<"filters", "hasNotes">>>>,
          <<"hiddenFromReports", <<"filters", "hideFromReports">>>>,
          <<"isRecurring", <<"filters", "isRecurring">>>>,
          <<"isSplit", <<"filters", "isSplit">>>>,
          <<"importedFromMint", <<"filters", "importedFromMint">>>>,
          <<"syncedFromInstitution", <<"filters", "syncedFromInstitution">>>>}
    [] op = "updateTransaction" ->
         {<<"categoryId", <<"input", "category">>>>, <<"merchantName", <<"input", "name">>>>,
          <<"amount", <<"input", "amount">>>>, <<"date", <<"input", "date">>>>,
          <<"hideFromReports", <<"input", "hideFromReports">>>>,
          <<"needsReview", <<"input", "needsReview">>>>,
          <<"goalId", <<"input", "goalId">>>>, <<"notes", <<"input", "notes">>>>}
    [] op = "updateAccount" ->
         {<<"accountType", <<"input", "type">>>>, <<"accountSubType", <<"input", "subtype">>>>,
          <<"includeInNetWorth", <<"input", "includeInNetWorth">>>>,
          <<"hideFromSummaryList", <<"input", "hideFromList">>>>,
          <<"hideTransactionsFromReports", <<"input", "hideTransactionsFromReports">>>>,
          <<"accountName", <<"input", "name">>>>,
          <<"accountBalance", <<"input", "displayBalance">>>>}
    [] op = "getAggregateSnapshots" ->
         {<<"endDate", <<"filters", "endDate">>>>, <<"accountType", <<"filters", "accountType">>>>}
    [] op = "setBudgetAmount" ->
         {<<"categoryId", <<"input", "categoryId">>>>,
          <<"categoryGroupId", <<"input", "categoryGroupId">>>>}
    [] OTHER -> {}

\* The call reached gqlCall with a variables object in the variables position.
SentVariables == desc.op # "none" /\ desc.outcome = "ok" /\ desc.variables.kind = "variables"

\* C22: in the variables an operation dispatches, each of its optional parameters
\* is present exactly when the caller gave it a non-null value; one left at null
\* is absent, not sent as null.
C22_OptionalSentIffSupplied ==
  SentVariables =>
    \A p \in OptionalParams(desc.op) :
      (p[2] \in DOMAIN desc.variables.map) <=> (desc.args[p[1]] # NULL)

\* C23: the top-level names of the variables an operation dispatches are all
\* declared in the header of the document it dispatches them with.
C23_OnlyDeclaredVariables ==
  (SentVariables /\ desc.graphqlQuery.kind = "document") =>
    {k[1] : k \in DOMAIN desc.variables.map} \subseteq desc.graphqlQuery.declares

\* The place of startDate and endDate in the variables of an operation.
DateKey(op, name) ==
  IF op \in {"getCashflow", "getCashflowSummary"} THEN <<"filters", name>> ELSE <<name, "">>

\* C24: getCashflow, getCashflowSummary and getRecurringTransactions, called with
\* both dates null, dispatch the first and the last day of the month of the
\* caller's local date, whatever the date and the time-zone offset.
C24_DefaultIsCurrentLocalMonth ==
  (/\ SentVariables
   /\ desc.op \in {"getCashflow", "getCashflowSummary", "getRecurringTransactions"}
   /\ desc.args.startDate = NULL
   /\ desc.args.endDate = NULL)
    => /\ desc.variables.map[DateKey(desc.op, "startDate")]
            = IsoDate(Day(desc.today.y, desc.today.month0, 1))
       /\ desc.variables.map[DateKey(desc.op, "endDate")]
            = IsoDate(Day(desc.today.y, desc.today.month0,
                          DaysIn(desc.today.y, desc.today.month0)))

\* The month before the month of the local date t.
PreviousMonth(t) == IF t.month0 = 0 THEN Day(t.y - 1, 11, 1) ELSE Day(t.y, t.month0 - 1, 1)

MonthIndex(u) == u.y * 12 + u.month0

\* getBudgets was called with both dates null.
DefaultBudgets ==
  /\ SentVariables
  /\ desc.op = "getBudgets"
  /\ desc.args.startDate = NULL
  /\ desc.args.endDate = NULL

\* What the implementation impl dispatches for the call in desc.
BudgetsOf(impl) == getBudgets_gqlCall(impl, desc.args, desc.today, desc.tz).variables.map

\* The endDates of the two implementations lie in consecutive months, the
\* module-level one in the later.
EndDatesOneMonthApart ==
  /\ BudgetsOf("module")[<<"endDate", "">>] # BudgetsOf("class")[<<"endDate", "">>]
  /\ MonthIndex(toUTC(m_getBudgets_nextMonth(desc.today), desc.tz))
       = MonthIndex(toUTC(c_getBudgets_nextMonth(desc.today), desc.tz)) + 1

C28_QueryThenVariables ==
  (desc.op # "none" /\ desc.outcome = "ok") =>
    /\ desc.graphqlQuery.kind = "document"
    /\ desc.variables.kind = "variables"
    /\ desc.op = "getTransactionDetails" =>
         /\ desc.graphqlQuery.name = "GetTransactionDrawer"
         /\ DOMAIN desc.variables.map = {<<"id", "">>, <<"redirectPosted", "">>}

====
